---- MODULE Spec2Model ----
(***************************************************************************)
(* Model of src/server/server.js: the lobby / rooms / world / chat /       *)
(* WebRTC-signaling WebSocket server.                                      *)
(*                                                                         *)
(* Node runs every handler to completion on one thread, so each handler    *)
(* (connection, message dispatch, close) is one atomic action.             *)
(*                                                                         *)
(* Conventions                                                             *)
(*  - a ws handle is the ordinal of its "connection" event (1, 2, ...);    *)
(*    Map iteration order of `clients` is therefore ascending ws;          *)
(*  - uid(n) is modelled as fresh: its k-th result for a given n is        *)
(*    uid(n, k); ids of rooms (n = 4) and players (n = 6) never meet;      *)
(*  - null (roomId, code, password) and a missing / empty `to` are 0 or    *)
(*    the empty string <<>>, which are exactly the falsy values the        *)
(*    handlers test for;                                                   *)
(*  - strings that the code slices or measures are sequences of            *)
(*    characters; opaque strings are TLA+ strings;                         *)
(*  - message texts are written without accents;                          *)
(*  - Date.now() values (createdAt, at) are opaque and read by no handler; *)
(*    they are left out of the records.                                    *)
(***************************************************************************)
EXTENDS Integers, Sequences, FiniteSets, TLC

\* ------------------------------------------------------------------ bounds
MaxConns == 3      \* connections accepted over the whole run
MaxRooms == 2      \* rooms created over the whole run

Sockets == 1..MaxConns

\* ------------------------------------------------------- JavaScript values
\* A JavaScript value where the code does arithmetic on it: a rational
\* number n/d, NaN, undefined, or a non-numeric string.
Num(n) == [type |-> "number", n |-> n, d |-> 1]
Frac(n, d) == [type |-> "number", n |-> n, d |-> d]
NaN == [type |-> "NaN", n |-> 0, d |-> 1]
Undefined == [type |-> "undefined", n |-> 0, d |-> 1]
Text == [type |-> "string", n |-> 0, d |-> 1]

\* what JSON.stringify writes for a number: NaN becomes null
JsonNull == [type |-> "null", n |-> 0, d |-> 1]
Json(v) == IF v.type = "NaN" THEN JsonNull ELSE v

\* v is truthy (the left operand of || is kept)
Truthy(v) == \/ v.type = "string"
             \/ v.type = "number" /\ v.n # 0

\* Number(v)
Number(v) == IF v.type = "number" THEN v ELSE NaN

\* Number.isFinite(v): no coercion, true for numbers only
IsFinite(v) == v.type = "number"

\* a <= b on numbers (false when either is NaN)
Leq(a, b) == a.type = "number" /\ b.type = "number" /\ a.n * b.d <= b.n * a.d

\* Math.min(a, b), Math.max(a, b): NaN if either argument is NaN
MathMin(a, b) == IF a.type # "number" \/ b.type # "number" THEN NaN
                 ELSE IF Leq(a, b) THEN a ELSE b
MathMax(a, b) == IF a.type # "number" \/ b.type # "number" THEN NaN
                 ELSE IF Leq(a, b) THEN b ELSE a

\* s.slice(0, n)
Slice(s, n) == SubSeq(s, 1, IF Len(s) < n THEN Len(s) ELSE n)

\* s.trim() is empty, for the empty string only
BlankOnlyIfEmpty(s) == s = <<>>

\* s.trim() is empty
Blank(s) == \A i \in 1..Len(s) : s[i] = " "

Player == <<"P", "l", "a", "y", "e", "r">>
Sala == <<"S", "a", "l", "a">>

\* x || dflt for a string x
OrStr(x, dflt) == IF x = <<>> THEN dflt ELSE x

\* uid(n), k-th call: a value no earlier call returned
uid(n, k) == n * 100 + k

Null == 0

\* ------------------------------------------------------------------- state
VARIABLES
  clients,      \* Map ws -> [playerId, roomId, nickname]
  rooms,        \* Map roomId -> room
  readyState,   \* ws -> "CONNECTING" (not accepted yet) | "OPEN" | "CLOSED"
  roomSeq,      \* number of uid(4) calls so far
  outbox,       \* ws -> messages ws.send() delivered during the last handler
  last,         \* the last event handled: [t, ws, msg]
  pre,          \* clients and rooms as they were before the last event
  lastSent,     \* ws -> the last state message ws sent since it entered its room
  lastRooms,    \* ws -> the listing of the last rooms message delivered to ws
                \* (kept while the socket of ws is open)
  twin          \* [clients, rooms, out] of a second run of the server that gets
                \* the same events with other lock secrets (SpecTwin only)

vars == <<clients, rooms, readyState, roomSeq, outbox, last, pre, lastSent,
          lastRooms, twin>>

\* A handler works on S = [clients, rooms, readyState, out] and returns the
\* new S; out collects what ws.send() delivers while the handler runs.
NoOut == [w \in Sockets |-> <<>>]
Cur == [clients |-> clients, rooms |-> rooms, readyState |-> readyState,
        out |-> NoOut]

\* ------------------------------------------------------------ send helpers
send(S, ws, obj) ==
  IF S.readyState[ws] = "OPEN" THEN [S EXCEPT !.out[ws] = Append(@, obj)] ELSE S

\* error that sends nothing
errorDropped(S, ws, message) == S

error(S, ws, message) == send(S, ws, [t |-> "error", message |-> message])

\* safeRoomForList that copies the whole room record's secrets as well
safeRoomForListWithSecrets(r) ==
  [ id |-> r.id,
    name |-> r.name,
    visibility |-> r.visibility,
    lock |-> r.lock,
    code |-> r.code,
    password |-> r.password,
    codeRequired |-> (r.visibility = "private" /\ r.lock = "code"),
    passwordRequired |-> (r.visibility = "private" /\ r.lock = "password"),
    maxPlayers |-> Json(r.maxPlayers),
    players |-> Cardinality(r.players),
    status |-> IF Leq(r.maxPlayers, Num(Cardinality(r.players)))
               THEN "full" ELSE "open" ]

\* the summary as its receivers read it: every use of it is sent as JSON
safeRoomForList(r) ==
  [ id |-> r.id,
    name |-> r.name,
    visibility |-> r.visibility,
    lock |-> r.lock,
    codeRequired |-> (r.visibility = "private" /\ r.lock = "code"),
    passwordRequired |-> (r.visibility = "private" /\ r.lock = "password"),
    maxPlayers |-> Json(r.maxPlayers),
    players |-> Cardinality(r.players),
    status |-> IF Leq(r.maxPlayers, Num(Cardinality(r.players)))
               THEN "full" ELSE "open" ]

\* the elements of a set of integers in ascending order
RECURSIVE Ascending(_)
Ascending(s) ==
  IF s = {} THEN <<>>
  ELSE LET m == CHOOSE x \in s : \A y \in s : x <= y
       IN <<m>> \o Ascending(s \ {m})

\* Array.from(rooms.values()).map(safeRoomForList): insertion order, which is
\* the order of the ids as uid hands them out
RoomList(rs) ==
  LET ids == Ascending(DOMAIN rs)
  IN [i \in 1..Len(ids) |-> safeRoomForList(rs[ids[i]])]

\* broadcastRooms that skips the connections that are in a room
broadcastRoomsToLobby(S) ==
  LET msg == [t |-> "rooms", rooms |-> RoomList(S.rooms)]
  IN [S EXCEPT !.out = [w \in Sockets |->
        IF w \in DOMAIN S.clients /\ S.readyState[w] = "OPEN"
           /\ S.clients[w].roomId = Null
        THEN Append(S.out[w], msg) ELSE S.out[w]]]

broadcastRooms(S) ==
  LET msg == [t |-> "rooms", rooms |-> RoomList(S.rooms)]
  IN [S EXCEPT !.out = [w \in Sockets |->
        IF w \in DOMAIN S.clients /\ S.readyState[w] = "OPEN"
        THEN Append(S.out[w], msg) ELSE S.out[w]]]

broadcastToRoom(S, roomId, obj) ==
  [S EXCEPT !.out = [w \in Sockets |->
     IF /\ w \in DOMAIN S.clients
        /\ S.clients[w].roomId = roomId
        /\ S.readyState[w] = "OPEN"
     THEN Append(S.out[w], obj) ELSE S.out[w]]]

roomRoster(S, roomId) ==
  LET ws == Ascending({w \in DOMAIN S.clients : S.clients[w].roomId = roomId})
  IN [i \in 1..Len(ws) |->
        [id |-> S.clients[ws[i]].playerId,
         nickname |-> OrStr(S.clients[ws[i]].nickname, Player)]]

\* -------------------------------------------------------------- leaveRoom
Without(f, k) == [x \in DOMAIN f \ {k} |-> f[x]]

\* Map.delete that deletes nothing
StatesKept(states, id) == states

\* Map.delete on the ordered states map (a sequence of entries)
StatesDelete(states, id) == SelectSeq(states, LAMBDA e : e.id # id)

\* r.players.delete(c.playerId); r.states.delete(c.playerId)
RemoveMemberKeepsPlayer(r, playerId) ==
  [r EXCEPT !.states = StatesDelete(@, playerId)]

RemoveMember(r, playerId) ==
  [r EXCEPT !.players = @ \ {playerId}, !.states = StatesDelete(@, playerId)]

\* leaveRoom that announces the departure before it clears c.roomId
leaveRoomAnnouncesFirst(S, ws) ==
  IF ws \notin DOMAIN S.clients \/ S.clients[ws].roomId = Null THEN S
  ELSE
    LET c == S.clients[ws]
        roomId == c.roomId
        rooms1 ==
          IF roomId \in DOMAIN S.rooms
          THEN LET r == S.rooms[roomId]
                   r1 == RemoveMember(r, c.playerId)
               IN IF r1.players = {} THEN Without(S.rooms, roomId)
                  ELSE [S.rooms EXCEPT ![roomId] = r1]
          ELSE S.rooms
        S1 == [S EXCEPT !.rooms = rooms1]
        S2 == broadcastToRoom(S1, roomId, [t |-> "peer_left", id |-> c.playerId])
        S3 == [S2 EXCEPT !.clients[ws].roomId = Null]
    IN broadcastRooms(S3)

leaveRoom(S, ws) ==
  IF ws \notin DOMAIN S.clients \/ S.clients[ws].roomId = Null THEN S
  ELSE
    LET c == S.clients[ws]
        roomId == c.roomId
        rooms1 ==
          IF roomId \in DOMAIN S.rooms
          THEN LET r == S.rooms[roomId]
                   r1 == RemoveMember(r, c.playerId)
               IN IF r1.players = {} THEN Without(S.rooms, roomId)
                  ELSE [S.rooms EXCEPT ![roomId] = r1]
          ELSE S.rooms
        S1 == [S EXCEPT !.rooms = rooms1, !.clients[ws].roomId = Null]
        S2 == broadcastToRoom(S1, roomId, [t |-> "peer_left", id |-> c.playerId])
    IN broadcastRooms(S2)

\* ------------------------------------------------------------- createRoom
NoCode == ""        \* code: null
NoPassword == <<>>  \* password: null

\* createRoom that puts the owner in r.players and leaves c.roomId alone
createRoomOwnerListed(S, ws, msg, code, id) ==
  IF ws \notin DOMAIN S.clients THEN error(S, ws, "Cliente invalido.")
  ELSE IF S.clients[ws].roomId # Null
  THEN error(S, ws, "Ya estas en una sala. Sali primero.")
  ELSE
    LET vis == IF msg.visibility = "private" THEN "private" ELSE "public"
        mp == MathMax(Num(2), MathMin(Num(16),
                Number(IF Truthy(msg.maxPlayers) THEN msg.maxPlayers ELSE Num(2))))
        lock == IF vis = "private"
                THEN (IF msg.lock = "password" THEN "password" ELSE "code")
                ELSE "none"
        password == IF lock = "password" THEN msg.password ELSE NoPassword
    IN IF lock = "password" /\ Len(password) < 3
       THEN error(S, ws, "Contrasena muy corta (minimo 3).")
       ELSE
         LET room == [ id |-> id,
                       name |-> Slice(OrStr(msg.name, Sala), 24),
                       visibility |-> vis,
                       lock |-> lock,
                       password |-> password,
                       code |-> IF lock = "code" THEN code ELSE NoCode,
                       maxPlayers |-> mp,
                       players |-> {S.clients[ws].playerId},
                       states |-> <<>> ]
             S1 == [S EXCEPT !.rooms = (id :> room) @@ S.rooms]
             S2 == send(S1, ws, [t |-> "created", room |-> safeRoomForList(room),
                                 code |-> room.code])
         IN broadcastRooms(S2)

\* `code` is what makeCode(6) returns if it is called, `id` what uid(4) returns
createRoom(S, ws, msg, code, id) ==
  IF ws \notin DOMAIN S.clients THEN error(S, ws, "Cliente invalido.")
  ELSE IF S.clients[ws].roomId # Null
  THEN error(S, ws, "Ya estas en una sala. Sali primero.")
  ELSE
    LET vis == IF msg.visibility = "private" THEN "private" ELSE "public"
        mp == MathMax(Num(2), MathMin(Num(16),
                Number(IF Truthy(msg.maxPlayers) THEN msg.maxPlayers ELSE Num(2))))
        lock == IF vis = "private"
                THEN (IF msg.lock = "password" THEN "password" ELSE "code")
                ELSE "none"
        password == IF lock = "password" THEN msg.password ELSE NoPassword
    IN IF lock = "password" /\ Len(password) < 3
       THEN error(S, ws, "Contrasena muy corta (minimo 3).")
       ELSE
         LET room == [ id |-> id,
                       name |-> Slice(OrStr(msg.name, Sala), 24),
                       visibility |-> vis,
                       lock |-> lock,
                       password |-> password,
                       code |-> IF lock = "code" THEN code ELSE NoCode,
                       maxPlayers |-> mp,
                       players |-> {},
                       states |-> <<>> ]
             S1 == [S EXCEPT !.rooms = (id :> room) @@ S.rooms]
             S2 == send(S1, ws, [t |-> "created", room |-> safeRoomForList(room),
                                 code |-> room.code])
         IN broadcastRooms(S2)

\* --------------------------------------------------------------- joinRoom
\* if (c.roomId) return error(...)
AlreadyInRoomUnchecked(c) == FALSE

AlreadyInRoom(c) == c.roomId # Null

\* r.players.size >= r.maxPlayers
RoomIsFullOffByOne(r) ==
  Leq(r.maxPlayers, Num(Cardinality(r.players))) /\ r.maxPlayers # Num(Cardinality(r.players))

RoomIsFull(r) == Leq(r.maxPlayers, Num(Cardinality(r.players)))

joinRoom(S, ws, msg) ==
  IF ws \notin DOMAIN S.clients THEN error(S, ws, "Cliente invalido.")
  ELSE IF AlreadyInRoom(S.clients[ws]) THEN error(S, ws, "Ya estas en una sala.")
  ELSE IF msg.roomId \notin DOMAIN S.rooms THEN error(S, ws, "Sala no existe.")
  ELSE
    LET r == S.rooms[msg.roomId]
        c == S.clients[ws]
    IN IF RoomIsFull(r)
       THEN error(S, ws, "Sala llena.")
       ELSE IF r.visibility = "private" /\ r.lock = "code" /\ msg.code # r.code
       THEN error(S, ws, "Codigo incorrecto.")
       ELSE IF r.visibility = "private" /\ r.lock = "password"
               /\ msg.password # r.password
       THEN error(S, ws, "Contrasena incorrecta.")
       ELSE
         LET nickname == Slice(OrStr(msg.nickname, Player), 18)
             S1 == [S EXCEPT !.clients[ws].nickname = nickname,
                             !.clients[ws].roomId = r.id,
                             !.rooms[r.id].players = @ \cup {c.playerId}]
             S2 == send(S1, ws, [t |-> "joined",
                                 room |-> safeRoomForList(S1.rooms[r.id]),
                                 playerId |-> c.playerId])
             S3 == send(S2, ws, [t |-> "roster", roster |-> roomRoster(S2, r.id)])
             S4 == broadcastToRoom(S3, r.id, [t |-> "peer_joined", id |-> c.playerId,
                                              nickname |-> nickname])
         IN broadcastRooms(S4)

\* ------------------------------------------------------------ handleState
\* Map.set on the ordered states map: an existing key keeps its position
StatesSet(states, e) ==
  IF \E i \in 1..Len(states) : states[i].id = e.id
  THEN [i \in 1..Len(states) |-> IF states[i].id = e.id THEN e ELSE states[i]]
  ELSE Append(states, e)

Finite(v) == IF IsFinite(v) THEN v ELSE Num(0)

handleState(S, ws, msg) ==
  IF ws \notin DOMAIN S.clients \/ S.clients[ws].roomId = Null THEN S
  ELSE IF S.clients[ws].roomId \notin DOMAIN S.rooms THEN S
  ELSE
    LET c == S.clients[ws]
        r == S.rooms[c.roomId]
        s == msg.state
        e == [id |-> c.playerId, nickname |-> c.nickname,
              x |-> Finite(s.x), y |-> Finite(s.y), a |-> Finite(s.a), z |-> Finite(s.z)]
        S1 == [S EXCEPT !.rooms[r.id].states = StatesSet(@, e)]
    IN broadcastToRoom(S1, r.id, [t |-> "world", players |-> S1.rooms[r.id].states])

\* ------------------------------------------------------------- handleChat
handleChat(S, ws, msg) ==
  IF ws \notin DOMAIN S.clients \/ S.clients[ws].roomId = Null THEN S
  ELSE
    LET c == S.clients[ws]
        text == Slice(msg.text, 220)
    IN IF Blank(text) THEN S
       ELSE broadcastToRoom(S, c.roomId,
              [t |-> "chat", from |-> OrStr(c.nickname, Player),
               id |-> c.playerId, text |-> text])

\* -------------------------------------------------------------- handleRTC
\* cc.playerId === to && cc.roomId === c.roomId
IsTargetAnyRoom(cc, c, to) == cc.playerId = to

IsTarget(cc, c, to) == cc.playerId = to /\ cc.roomId = c.roomId

handleRTC(S, ws, msg) ==
  IF ws \notin DOMAIN S.clients \/ S.clients[ws].roomId = Null THEN S
  ELSE IF msg.to = Null THEN S
  ELSE
    LET c == S.clients[ws]
        hits == {w \in DOMAIN S.clients : IsTarget(S.clients[w], c, msg.to)}
    IN IF hits = {} THEN S
       ELSE LET targetWS == CHOOSE w \in hits : \A v \in hits : w <= v
            IN send(S, targetWS, [t |-> msg.t, from |-> c.playerId,
                                  payload |-> msg.payload])

\* ------------------------------------------------------------ the inputs
Codes == {"ABC234", "XYZ789"}          \* results of makeCode(6)
OneCode == {"ABC234"}
RoomIds == {uid(4, k) : k \in 1..MaxRooms}
PlayerIds == {uid(6, k) : k \in 1..MaxConns}

Chars(n, ch) == [i \in 1..n |-> ch]
LongName == Chars(25, "n")             \* one character over the name limit
LongNick == Chars(19, "k")             \* one character over the nickname limit
Abc == <<"a", "b", "c">>

CreateMsg(name, vis, lock, password, mp) ==
  [t |-> "create_room", name |-> name, visibility |-> vis, lock |-> lock,
   password |-> password, maxPlayers |-> mp]

JoinMsg(roomId, nickname, code, password) ==
  [t |-> "join_room", roomId |-> roomId, nickname |-> nickname, code |-> code,
   password |-> password]

\* inputs of SpecRooms
CreateMsgs ==
  { CreateMsg(<<>>, "public", "none", <<>>, Undefined),
    CreateMsg(LongName, "public", "none", <<>>, Num(3)),
    CreateMsg(<<>>, "private", "code", <<>>, Num(2)) }

JoinMsgs ==
  { JoinMsg(id, LongNick, s[1], s[2]) :
      id \in RoomIds,
      s \in { <<"ABC234", Abc>>, <<"XYZ789", Abc \o <<"d">> >> } }

StateMsg(x, y, a, z) ==
  [t |-> "state", state |-> [x |-> x, y |-> y, a |-> a, z |-> z]]

StateMsgs ==
  { StateMsg(Num(1), Num(2), Num(3), Num(4)),
    StateMsg(Num(5), Text, NaN, Undefined) }

LongText == Chars(221, "c")            \* one character over the chat limit
BlankHead == Chars(220, " ") \o <<"x">> \* 220 blanks, then one that is not

ChatMsgs ==
  { [t |-> "chat", text |-> s] :
      s \in {<<>>, <<" ", " ">>, <<"h", "i">>, <<" ", "h", " ">>, LongText, BlankHead} }

RTCMsgs ==
  { [t |-> k, to |-> to, payload |-> "sdp"] :
      k \in {"rtc_offer", "rtc_answer", "rtc_ice"},
      to \in PlayerIds \cup {Null} }

\* what lastSent holds: nothing sent yet, or the state object of the message
NoSent == [sent |-> FALSE, x |-> Undefined, y |-> Undefined, a |-> Undefined,
           z |-> Undefined]
Sent(state) == [sent |-> TRUE, x |-> state.x, y |-> state.y, a |-> state.a,
                z |-> state.z]

\* what lastRooms holds: no listing delivered yet, or the delivered listing
NoRooms == [seen |-> FALSE, rooms |-> <<>>]
SeenRooms(list) == [seen |-> TRUE, rooms |-> list]

\* ---------------------------------------------------------------- actions
Init ==
  /\ clients = <<>>
  /\ rooms = <<>>
  /\ readyState = [w \in Sockets |-> "CONNECTING"]
  /\ roomSeq = 0
  /\ outbox = NoOut
  /\ last = [t |-> "init", ws |-> 0]
  /\ pre = [clients |-> <<>>, rooms |-> <<>>]
  /\ lastSent = [w \in Sockets |-> NoSent]
  /\ lastRooms = [w \in Sockets |-> NoRooms]
  /\ twin = [clients |-> <<>>, rooms |-> <<>>, out |-> NoOut]

\* the room pointer of ws in a clients map (Null when ws is not registered)
RoomOf(cs, ws) == IF ws \in DOMAIN cs THEN cs[ws].roomId ELSE Null

\* the handler ran from Cur to S1 on event ev; the history variables record
\* the event, what it delivered, the state it started from and the last
\* listing each open socket was delivered
Recorded(S1, ev) ==
  /\ clients' = S1.clients
  /\ rooms' = S1.rooms
  /\ outbox' = S1.out
  /\ last' = ev
  /\ pre' = [clients |-> clients, rooms |-> rooms]
  /\ lastSent' = [w \in Sockets |->
        IF RoomOf(S1.clients, w) # RoomOf(clients, w) \/ RoomOf(S1.clients, w) = Null
        THEN NoSent
        ELSE IF ev.t = "state" /\ ev.ws = w THEN Sent(ev.msg.state)
        ELSE lastSent[w]]
  /\ lastRooms' = [w \in Sockets |->
        IF S1.readyState[w] # "OPEN" THEN NoRooms
        ELSE LET ks == {k \in 1..Len(S1.out[w]) : S1.out[w][k].t = "rooms"}
             IN IF ks = {} THEN lastRooms[w]
                ELSE SeenRooms(S1.out[w][CHOOSE k \in ks : \A j \in ks : j <= k].rooms)]

Handled(S1, ev) == Recorded(S1, ev) /\ UNCHANGED twin

\* wss.on("connection") that sends the listing before the welcome
ConnectionListsFirst(ws) ==
  /\ readyState[ws] = "CONNECTING"
  /\ \A v \in 1..(ws - 1) : readyState[v] # "CONNECTING"
  /\ readyState' = [readyState EXCEPT ![ws] = "OPEN"]
  /\ LET playerId == uid(6, ws)
         S0 == [Cur EXCEPT !.readyState = readyState',
                           !.clients = (ws :> [playerId |-> playerId, roomId |-> Null,
                                               nickname |-> Player]) @@ @]
         S1 == send(S0, ws, [t |-> "rooms", rooms |-> RoomList(S0.rooms)])
         S2 == send(S1, ws, [t |-> "welcome", playerId |-> playerId])
     IN Handled(S2, [t |-> "connection", ws |-> ws])
  /\ UNCHANGED roomSeq

\* wss.on("connection")
Connection(ws) ==
  /\ readyState[ws] = "CONNECTING"
  /\ \A v \in 1..(ws - 1) : readyState[v] # "CONNECTING"
  /\ readyState' = [readyState EXCEPT ![ws] = "OPEN"]
  /\ LET playerId == uid(6, ws)
         S0 == [Cur EXCEPT !.readyState = readyState',
                           !.clients = (ws :> [playerId |-> playerId, roomId |-> Null,
                                               nickname |-> Player]) @@ @]
         S1 == send(S0, ws, [t |-> "welcome", playerId |-> playerId])
         S2 == send(S1, ws, [t |-> "rooms", rooms |-> RoomList(S1.rooms)])
     IN Handled(S2, [t |-> "connection", ws |-> ws])
  /\ UNCHANGED roomSeq

\* the transport of ws goes down: readyState leaves OPEN some time before
\* "close" fires. Until "close" the connection stays registered, other
\* handlers run, and messages of ws that were already buffered are still
\* dispatched.
SocketDown(ws) ==
  /\ readyState[ws] = "OPEN"
  /\ readyState' = [readyState EXCEPT ![ws] = "CLOSED"]
  /\ Handled([Cur EXCEPT !.readyState = readyState'], [t |-> "socket_down", ws |-> ws])
  /\ UNCHANGED roomSeq

\* ws.on("close") without its leaveRoom(ws)
CloseWithoutLeave(ws) ==
  /\ ws \in DOMAIN clients
  /\ readyState[ws] = "CLOSED"
  /\ LET S2 == [Cur EXCEPT !.clients = Without(@, ws)]
     IN Handled(broadcastRooms(S2), [t |-> "close", ws |-> ws])
  /\ UNCHANGED <<readyState, roomSeq>>

\* ws.on("close")
Close(ws) ==
  /\ ws \in DOMAIN clients
  /\ readyState[ws] = "CLOSED"
  /\ LET S1 == leaveRoom(Cur, ws)
         S2 == [S1 EXCEPT !.clients = Without(@, ws)]
     IN Handled(broadcastRooms(S2), [t |-> "close", ws |-> ws])
  /\ UNCHANGED <<readyState, roomSeq>>

\* ws.on("message"), by msg.t
List(ws) ==
  /\ ws \in DOMAIN clients
  /\ Handled(send(Cur, ws, [t |-> "rooms", rooms |-> RoomList(rooms)]),
             [t |-> "list", ws |-> ws])
  /\ UNCHANGED <<readyState, roomSeq>>

CreateRoom(ws, msg, code) ==
  /\ ws \in DOMAIN clients
  /\ LET id == uid(4, roomSeq + 1)
         S1 == createRoom(Cur, ws, msg, code, id)
         made == id \in DOMAIN S1.rooms
     IN /\ made => roomSeq < MaxRooms
        /\ Handled(S1, [t |-> "create_room", ws |-> ws, msg |-> msg])
        /\ roomSeq' = IF made THEN roomSeq + 1 ELSE roomSeq
  /\ UNCHANGED readyState

JoinRoom(ws, msg) ==
  /\ ws \in DOMAIN clients
  /\ Handled(joinRoom(Cur, ws, msg), [t |-> "join_room", ws |-> ws, msg |-> msg])
  /\ UNCHANGED <<readyState, roomSeq>>

LeaveRoom(ws) ==
  /\ ws \in DOMAIN clients
  /\ Handled(leaveRoom(Cur, ws), [t |-> "leave_room", ws |-> ws])
  /\ UNCHANGED <<readyState, roomSeq>>

State(ws, msg) ==
  /\ ws \in DOMAIN clients
  /\ Handled(handleState(Cur, ws, msg), [t |-> "state", ws |-> ws, msg |-> msg])
  /\ UNCHANGED <<readyState, roomSeq>>

Chat(ws, msg) ==
  /\ ws \in DOMAIN clients
  /\ Handled(handleChat(Cur, ws, msg), [t |-> "chat", ws |-> ws, msg |-> msg])
  /\ UNCHANGED <<readyState, roomSeq>>

RTC(ws, msg) ==
  /\ ws \in DOMAIN clients
  /\ Handled(handleRTC(Cur, ws, msg), [t |-> msg.t, ws |-> ws, msg |-> msg])
  /\ UNCHANGED <<readyState, roomSeq>>

\* an unrecognized kind that is dropped without an answer
UnknownIgnored(ws) ==
  /\ ws \in DOMAIN clients
  /\ Handled(Cur, [t |-> "unknown", ws |-> ws])
  /\ UNCHANGED <<readyState, roomSeq>>

Unknown(ws) ==
  /\ ws \in DOMAIN clients
  /\ Handled(error(Cur, ws, "Tipo desconocido."), [t |-> "unknown", ws |-> ws])
  /\ UNCHANGED <<readyState, roomSeq>>

\* JSON.parse throws: the message is dropped
Unparseable(ws) ==
  /\ ws \in DOMAIN clients
  /\ Handled(Cur, [t |-> "unparseable", ws |-> ws])
  /\ UNCHANGED <<readyState, roomSeq>>

\* --------------------------------------------------------- specifications
\* Rooms: connections, room creation with every visibility / lock, joins with
\* right and wrong secrets, leaves, transport loss and close.
NextRooms ==
  \/ \E ws \in Sockets : Connection(ws)
  \/ \E ws \in Sockets : SocketDown(ws)
  \/ \E ws \in Sockets : Close(ws)
  \/ \E ws \in Sockets, msg \in CreateMsgs, code \in OneCode : CreateRoom(ws, msg, code)
  \/ \E ws \in Sockets, msg \in JoinMsgs : JoinRoom(ws, msg)
  \/ \E ws \in Sockets : LeaveRoom(ws)

SpecRooms == Init /\ [][NextRooms]_vars

\* World: public rooms, joins without a nickname, state messages with numeric
\* and non-numeric fields.
WorldCreateMsgs == { CreateMsg(<<>>, "public", "none", <<>>, Undefined) }

WorldJoinMsgs == { JoinMsg(id, <<>>, NoCode, <<>>) : id \in RoomIds }

NextWorld ==
  \/ \E ws \in Sockets : Connection(ws)
  \/ \E ws \in Sockets : SocketDown(ws)
  \/ \E ws \in Sockets : Close(ws)
  \/ \E ws \in Sockets, msg \in WorldCreateMsgs, code \in OneCode : CreateRoom(ws, msg, code)
  \/ \E ws \in Sockets, msg \in WorldJoinMsgs : JoinRoom(ws, msg)
  \/ \E ws \in Sockets : LeaveRoom(ws)
  \/ \E ws \in Sockets, msg \in StateMsgs : State(ws, msg)

SpecWorld == Init /\ [][NextWorld]_vars

\* Relay: public rooms and the messages that change no membership: chat,
\* signaling to every player id and to none, list, unknown and unparseable.
NextRelay ==
  \/ \E ws \in Sockets : Connection(ws)
  \/ \E ws \in Sockets : SocketDown(ws)
  \/ \E ws \in Sockets : Close(ws)
  \/ \E ws \in Sockets, msg \in WorldCreateMsgs, code \in OneCode : CreateRoom(ws, msg, code)
  \/ \E ws \in Sockets, msg \in WorldJoinMsgs : JoinRoom(ws, msg)
  \/ \E ws \in Sockets : LeaveRoom(ws)
  \/ \E ws \in Sockets, msg \in ChatMsgs : Chat(ws, msg)
  \/ \E ws \in Sockets, msg \in RTCMsgs : RTC(ws, msg)
  \/ \E ws \in Sockets : List(ws)
  \/ \E ws \in Sockets : Unknown(ws)
  \/ \E ws \in Sockets : Unparseable(ws)

SpecRelay == Init /\ [][NextRelay]_vars

\* Casts: public rooms and one message of every kind that is cast to a room
\* or relayed inside one: state, chat and a signaling offer; listings on
\* request.
CastStateMsgs == { StateMsg(Num(1), Num(2), Num(3), Num(4)) }

CastChatMsgs == { [t |-> "chat", text |-> <<"h", "i">>] }

CastRTCMsgs == { [t |-> "rtc_offer", to |-> to, payload |-> "sdp"] : to \in PlayerIds }

NextCasts ==
  \/ \E ws \in Sockets : Connection(ws)
  \/ \E ws \in Sockets : SocketDown(ws)
  \/ \E ws \in Sockets : Close(ws)
  \/ \E ws \in Sockets, msg \in WorldCreateMsgs, code \in OneCode : CreateRoom(ws, msg, code)
  \/ \E ws \in Sockets, msg \in WorldJoinMsgs : JoinRoom(ws, msg)
  \/ \E ws \in Sockets : LeaveRoom(ws)
  \/ \E ws \in Sockets, msg \in CastStateMsgs : State(ws, msg)
  \/ \E ws \in Sockets, msg \in CastChatMsgs : Chat(ws, msg)
  \/ \E ws \in Sockets, msg \in CastRTCMsgs : RTC(ws, msg)
  \/ \E ws \in Sockets : List(ws)

SpecCasts == Init /\ [][NextCasts]_vars

\* Capacity: public rooms created with maxPlayers missing, below 2, above 16,
\* not an integer and not a number.
CapacityCreateMsgs ==
  { CreateMsg(<<>>, "public", "none", <<>>, mp) :
      mp \in {Undefined, Num(1), Num(17), Frac(5, 2), Text} }

NextCapacity ==
  \/ \E ws \in Sockets : Connection(ws)
  \/ \E ws \in Sockets : SocketDown(ws)
  \/ \E ws \in Sockets : Close(ws)
  \/ \E ws \in Sockets, msg \in CapacityCreateMsgs, code \in OneCode : CreateRoom(ws, msg, code)
  \/ \E ws \in Sockets, msg \in WorldJoinMsgs : JoinRoom(ws, msg)
  \/ \E ws \in Sockets : LeaveRoom(ws)

SpecCapacity == Init /\ [][NextCapacity]_vars

\* Locks: private rooms with either generated code or a password, joins with
\* the right secret, a wrong one and none, and listings on request.
LockCreateMsgs ==
  { CreateMsg(<<>>, "private", "code", <<>>, Num(2)),
    CreateMsg(<<>>, "private", "password", Abc, Num(2)),
    CreateMsg(<<>>, "private", "password", <<"a", "b">>, Num(2)) }

LockJoinMsgs ==
  { JoinMsg(id, <<>>, s[1], s[2]) :
      id \in RoomIds,
      s \in { <<"ABC234", Abc>>, <<"XYZ789", Abc \o <<"d">> >>, <<NoCode, <<>> >> } }

NextLocks ==
  \/ \E ws \in Sockets : Connection(ws)
  \/ \E ws \in Sockets : SocketDown(ws)
  \/ \E ws \in Sockets : Close(ws)
  \/ \E ws \in Sockets, msg \in LockCreateMsgs, code \in Codes : CreateRoom(ws, msg, code)
  \/ \E ws \in Sockets, msg \in LockJoinMsgs : JoinRoom(ws, msg)
  \/ \E ws \in Sockets : LeaveRoom(ws)
  \/ \E ws \in Sockets : List(ws)

SpecLocks == Init /\ [][NextLocks]_vars

\* Twin: two runs of the server side by side. Both get the same events; the
\* second run's makeCode returns the other code, its create_room carries the
\* other password, and its join_room carries the secret that stands in the
\* second run where the first run's message has its own, so that every join
\* has the same outcome in both.
Abcd == Abc \o <<"d">>

OtherCode(code) ==
  IF code = "ABC234" THEN "XYZ789" ELSE IF code = "XYZ789" THEN "ABC234" ELSE code

OtherPassword(password) ==
  IF password = Abc THEN Abcd ELSE IF password = Abcd THEN Abc ELSE password

OtherMsg(msg) ==
  IF msg.t = "create_room" THEN [msg EXCEPT !.password = OtherPassword(@)]
  ELSE IF msg.t = "join_room"
  THEN [msg EXCEPT !.code = OtherCode(@), !.password = OtherPassword(@)]
  ELSE msg

TwinCur == [clients |-> twin.clients, rooms |-> twin.rooms,
            readyState |-> readyState, out |-> NoOut]

TwinHandled(S1) ==
  twin' = [clients |-> S1.clients, rooms |-> S1.rooms, out |-> S1.out]

\* ws.on("message"): the dispatch on msg.t
handle(S, ws, msg, code, id) ==
  IF msg.t = "list" THEN send(S, ws, [t |-> "rooms", rooms |-> RoomList(S.rooms)])
  ELSE IF msg.t = "create_room" THEN createRoom(S, ws, msg, code, id)
  ELSE IF msg.t = "join_room" THEN joinRoom(S, ws, msg)
  ELSE IF msg.t = "leave_room" THEN leaveRoom(S, ws)
  ELSE IF msg.t = "state" THEN handleState(S, ws, msg)
  ELSE IF msg.t = "chat" THEN handleChat(S, ws, msg)
  ELSE IF msg.t \in {"rtc_offer", "rtc_answer", "rtc_ice"} THEN handleRTC(S, ws, msg)
  ELSE error(S, ws, "Tipo desconocido.")

TwinConnection(ws) ==
  /\ readyState[ws] = "CONNECTING"
  /\ \A v \in 1..(ws - 1) : readyState[v] # "CONNECTING"
  /\ readyState' = [readyState EXCEPT ![ws] = "OPEN"]
  /\ LET playerId == uid(6, ws)
         c == [playerId |-> playerId, roomId |-> Null, nickname |-> Player]
         welcome == [t |-> "welcome", playerId |-> playerId]
         S0 == [Cur EXCEPT !.readyState = readyState', !.clients = (ws :> c) @@ @]
         S1 == send(S0, ws, welcome)
         T0 == [TwinCur EXCEPT !.readyState = readyState', !.clients = (ws :> c) @@ @]
         T1 == send(T0, ws, welcome)
     IN /\ Recorded(send(S1, ws, [t |-> "rooms", rooms |-> RoomList(S1.rooms)]),
                    [t |-> "connection", ws |-> ws])
        /\ TwinHandled(send(T1, ws, [t |-> "rooms", rooms |-> RoomList(T1.rooms)]))
  /\ UNCHANGED roomSeq

TwinSocketDown(ws) ==
  /\ readyState[ws] = "OPEN"
  /\ readyState' = [readyState EXCEPT ![ws] = "CLOSED"]
  /\ Recorded([Cur EXCEPT !.readyState = readyState'], [t |-> "socket_down", ws |-> ws])
  /\ TwinHandled(TwinCur)
  /\ UNCHANGED roomSeq

TwinClose(ws) ==
  /\ ws \in DOMAIN clients
  /\ readyState[ws] = "CLOSED"
  /\ LET S1 == leaveRoom(Cur, ws)
         T1 == leaveRoom(TwinCur, ws)
     IN /\ Recorded(broadcastRooms([S1 EXCEPT !.clients = Without(@, ws)]),
                    [t |-> "close", ws |-> ws])
        /\ TwinHandled(broadcastRooms([T1 EXCEPT !.clients = Without(@, ws)]))
  /\ UNCHANGED <<readyState, roomSeq>>

TwinMessage(ws, msg, code) ==
  /\ ws \in DOMAIN clients
  /\ LET id == uid(4, roomSeq + 1)
         S1 == handle(Cur, ws, msg, code, id)
         T1 == handle(TwinCur, ws, OtherMsg(msg), OtherCode(code), id)
         made == id \in DOMAIN S1.rooms
     IN /\ made => roomSeq < MaxRooms
        /\ Recorded(S1, [t |-> msg.t, ws |-> ws, msg |-> msg])
        /\ TwinHandled(T1)
        /\ roomSeq' = IF made THEN roomSeq + 1 ELSE roomSeq
  /\ UNCHANGED readyState

TwinMsgs ==
  LockCreateMsgs \cup LockJoinMsgs \cup {[t |-> "leave_room"], [t |-> "list"]}

NextTwin ==
  \/ \E ws \in Sockets : TwinConnection(ws)
  \/ \E ws \in Sockets : TwinSocketDown(ws)
  \/ \E ws \in Sockets : TwinClose(ws)
  \/ \E ws \in Sockets, msg \in TwinMsgs, code \in Codes : TwinMessage(ws, msg, code)

SpecTwin == Init /\ [][NextTwin]_vars

\* ------------------------------------------------------ vocabulary of claims
Err(message) == [t |-> "error", message |-> message]

\* v is an integer in 2..16
InRange(v) == v.type = "number" /\ v.d = 1 /\ v.n \in 2..16

\* the capacity of r is an integer C in 2..16
CapacityInRange(r) ==
  r.maxPlayers.type = "number" /\ r.maxPlayers.d = 1 /\ r.maxPlayers.n \in 2..16

\* the last event was a join_room aimed at a room that held exactly as many
\* members as its capacity C in 2..16
JoinOnFullRoom ==
  /\ last.t = "join_room"
  /\ last.msg.roomId \in DOMAIN pre.rooms
  /\ CapacityInRange(pre.rooms[last.msg.roomId])
  /\ Cardinality(pre.rooms[last.msg.roomId].players)
       = pre.rooms[last.msg.roomId].maxPlayers.n

WithinCapacity ==
  \A id \in DOMAIN rooms :
    CapacityInRange(rooms[id]) =>
      Cardinality(rooms[id].players) <= rooms[id].maxPlayers.n

\* the rooms the last event added to the directory
NewRooms == DOMAIN rooms \ DOMAIN pre.rooms

\* the messages delivered to w by the last event, as a set
Got(w) == {outbox[w][i] : i \in 1..Len(outbox[w])}

\* the registered connections whose player id is a member of room id
MembersOf(id) == {w \in DOMAIN clients : clients[w].playerId \in rooms[id].players}

\* the world entry of member w as the claim describes it: its last state
\* message since it joined, zeros if it has sent none
EntryOf(w) ==
  [id |-> clients[w].playerId, nickname |-> clients[w].nickname,
   x |-> Finite(lastSent[w].x), y |-> Finite(lastSent[w].y),
   a |-> Finite(lastSent[w].a), z |-> Finite(lastSent[w].z)]

\* the last event was the close of a connection that was in a room
ClosedInRoom == last.t = "close" /\ pre.clients[last.ws].roomId # Null

\* the last event was a signaling message
Signaling == last.t \in {"rtc_offer", "rtc_answer", "rtc_ice"}

\* a message without the code a created acknowledgment carries
CodeMasked(m) == IF m.t = "created" THEN [m EXCEPT !.code = NoCode] ELSE m

\* the fields of a room summary in a listing
SummaryFields ==
  {"id", "name", "visibility", "lock", "codeRequired", "passwordRequired",
   "maxPlayers", "players", "status"}

\* the last event was a create_room that has a reason to be rejected: the
\* requester already has a room (AlreadyInRoom) or asks for a password lock
\* with a password shorter than 3 (WeakPassword)
RejectedCreate ==
  /\ last.t = "create_room"
  /\ \/ pre.clients[last.ws].roomId # Null
     \/ /\ last.msg.visibility = "private" /\ last.msg.lock = "password"
        /\ Len(last.msg.password) < 3

\* the last event was a join_room that has a reason to be rejected: the
\* requester already has a room (AlreadyInRoom), the room is unknown
\* (NoSuchRoom), it holds as many members as its capacity (RoomFull), or it is
\* private and the secret of its lock is not the one supplied (BadCode,
\* BadPassword)
RejectedJoin ==
  /\ last.t = "join_room"
  /\ \/ pre.clients[last.ws].roomId # Null
     \/ last.msg.roomId \notin DOMAIN pre.rooms
     \/ LET r == pre.rooms[last.msg.roomId]
        IN \/ Leq(r.maxPlayers, Num(Cardinality(r.players)))
           \/ r.visibility = "private" /\ r.lock = "code" /\ last.msg.code # r.code
           \/ r.visibility = "private" /\ r.lock = "password"
                /\ last.msg.password # r.password

\* the last event was a join_room that succeeded: the requester entered the
\* room it asked for
JoinSucceeded ==
  /\ last.t = "join_room"
  /\ pre.clients[last.ws].roomId = Null
  /\ clients[last.ws].roomId = last.msg.roomId

\* the text of the last chat message cut to its first 220 characters
ChatCut == IF Len(last.msg.text) > 220 THEN SubSeq(last.msg.text, 1, 220) ELSE last.msg.text

\* s holds nothing but whitespace
WhitespaceOnly(s) == \A i \in 1..Len(s) : s[i] = " "

\* the chat event that the sender of the last chat message causes, given its text
ChatEvent(text) ==
  [t |-> "chat",
   from |-> IF clients[last.ws].nickname = <<>> THEN Player ELSE clients[last.ws].nickname,
   id |-> clients[last.ws].playerId, text |-> text]

\* the kinds of message that are cast to a room, and those relayed inside one
CastKinds == {"peer_left", "peer_joined", "world", "chat"}
RelayKinds == {"rtc_offer", "rtc_answer", "rtc_ice"}

\* the last event was a leave_room or a close of a connection that was in a room
Departed == last.t \in {"leave_room", "close"} /\ pre.clients[last.ws].roomId # Null

\* the room that the messages of the last event are about: the one its
\* connection left, or else the one its connection is in
RoomOfEvent ==
  IF last.t \in {"leave_room", "close"} THEN pre.clients[last.ws].roomId
  ELSE IF last.ws \in DOMAIN clients THEN clients[last.ws].roomId
  ELSE Null

\* the last event cast a message to a room: a departure, a successful join, a
\* state or a chat with text from a connection that is in a room
CastMade ==
  \/ Departed
  \/ JoinSucceeded
  \/ last.t = "state" /\ clients[last.ws].roomId # Null
  \/ last.t = "chat" /\ clients[last.ws].roomId # Null /\ ~WhitespaceOnly(ChatCut)

\* the connections whose room pointer is room r
PointingAt(r) == {w \in DOMAIN clients : clients[w].roomId = r}

\* the connections the last event delivered a message of one of the kinds to
Reached(kinds) == {w \in Sockets : \E m \in Got(w) : m.t \in kinds}

\* listing `list` shows directory `rs`: one summary per room, and each
\* summary has its room's id, member count, capacity and full / open status
ShowsDirectory(list, rs) ==
  /\ Len(list) = Cardinality(DOMAIN rs)
  /\ {list[k].id : k \in 1..Len(list)} = DOMAIN rs
  /\ \A k \in 1..Len(list) :
       LET r == rs[list[k].id]
       IN /\ list[k].players = Cardinality(r.players)
          /\ list[k].maxPlayers = r.maxPlayers
          /\ list[k].status = IF Leq(r.maxPlayers, Num(Cardinality(r.players)))
                              THEN "full" ELSE "open"

\* ------------------------------------------------------------------ claims
\* C1 (as stated): the member set of a room of capacity C in 2..16 never has
\* more than C elements, and every join_room handled while it has exactly C
\* is answered with the error "Sala llena." and adds no member.
C1_Original ==
  /\ WithinCapacity
  /\ JoinOnFullRoom =>
       /\ outbox[last.ws] = <<Err("Sala llena.")>>
       /\ rooms = pre.rooms

\* C1 (amended): the member set never has more than C elements, and every
\* join_room handled while it has exactly C changes neither the directory nor
\* the registry; the requester, if its socket is open, gets exactly one error:
\* "Sala llena." when it is in Lobby, "Ya estas en una sala." when it already
\* has a room; a requester whose socket is no longer open gets nothing.
C1_FullRoomRejects ==
  /\ WithinCapacity
  /\ JoinOnFullRoom =>
       /\ rooms = pre.rooms
       /\ clients = pre.clients
       /\ outbox[last.ws] =
            IF readyState[last.ws] # "OPEN" THEN <<>>
            ELSE IF pre.clients[last.ws].roomId = Null THEN <<Err("Sala llena.")>>
            ELSE <<Err("Ya estas en una sala.")>>

\* a Lobby connection was turned away from a full room
C1_Witness ==
  /\ JoinOnFullRoom
  /\ pre.clients[last.ws].roomId = Null
  /\ outbox[last.ws] = <<Err("Sala llena.")>>

\* C2: after every handled event, every room of the directory has at least
\* one member.
C2_NoEmptyRoom == \A id \in DOMAIN rooms : rooms[id].players # {}

\* C3: after a create_room that succeeds, the owner's player id is in the new
\* room's member set and the owner's room pointer is the new room's id.
C3_OwnerIsMember ==
  (last.t = "create_room" /\ NewRooms # {}) =>
    \A id \in NewRooms :
      /\ clients[last.ws].playerId \in rooms[id].players
      /\ clients[last.ws].roomId = id

\* C4: no player id is in the member sets of two different rooms.
C4_OneRoomPerPlayer ==
  \A i, j \in DOMAIN rooms : i # j => rooms[i].players \cap rooms[j].players = {}

\* two rooms have members at the same time, and a member of one has just been
\* refused by join_room because it already has a room
C4_Witness ==
  /\ \E i, j \in DOMAIN rooms :
       i # j /\ rooms[i].players # {} /\ rooms[j].players # {}
  /\ last.t = "join_room"
  /\ last.msg.roomId \in DOMAIN rooms
  /\ clients[last.ws].roomId \notin {Null, last.msg.roomId}
  /\ outbox[last.ws] = <<Err("Ya estas en una sala.")>>

\* C5: after every handled event, every member of every room is the player id
\* of a registered connection, and after a close the closed connection's
\* player id is in no room.
C5_MembersRegistered ==
  /\ \A id \in DOMAIN rooms : \A p \in rooms[id].players :
       \E w \in DOMAIN clients : clients[w].playerId = p
  /\ last.t = "close" =>
       \A id \in DOMAIN rooms : pre.clients[last.ws].playerId \notin rooms[id].players

\* a connection closed while it was in a room that others stay in
C5_Witness ==
  /\ last.t = "close"
  /\ pre.clients[last.ws].roomId \in DOMAIN rooms
  /\ pre.clients[last.ws].playerId \in pre.rooms[pre.clients[last.ws].roomId].players

\* C6: every world broadcast for a room holds exactly one entry per current
\* member of the room: the member's most recently sent state, or zeros for
\* x, y, z, a if it has sent none since joining.
C6_WorldCoversMembers ==
  \A w \in Sockets : \A m \in Got(w) :
    m.t = "world" =>
      LET id == clients[last.ws].roomId
      IN /\ Len(m.players) = Cardinality(rooms[id].players)
         /\ {m.players[k] : k \in 1..Len(m.players)} = {EntryOf(v) : v \in MembersOf(id)}

\* C10 (as stated): after the close of a connection that was in a room, every
\* remaining member of the room has received peer_left with its id, its id
\* and world entry are out of the room (the room is gone if it was the last
\* member), it is out of the registry, and every remaining connection has
\* received a rooms listing of the new directory.
C10_Original ==
  ClosedInRoom =>
    LET r == pre.clients[last.ws].roomId
        id == pre.clients[last.ws].playerId
    IN /\ \A w \in DOMAIN clients :
            clients[w].roomId = r => [t |-> "peer_left", id |-> id] \in Got(w)
       /\ r \in DOMAIN rooms =>
            /\ id \notin rooms[r].players
            /\ \A k \in 1..Len(rooms[r].states) : rooms[r].states[k].id # id
       /\ pre.rooms[r].players = {id} => r \notin DOMAIN rooms
       /\ last.ws \notin DOMAIN clients
       /\ \A w \in DOMAIN clients :
            [t |-> "rooms", rooms |-> RoomList(rooms)] \in Got(w)

\* C10 (amended): the same, for the remaining members and connections whose
\* socket is open; one whose socket is no longer open receives nothing.
C10_CloseLeaves ==
  ClosedInRoom =>
    LET r == pre.clients[last.ws].roomId
        id == pre.clients[last.ws].playerId
    IN /\ \A w \in DOMAIN clients :
            (clients[w].roomId = r /\ readyState[w] = "OPEN")
              => [t |-> "peer_left", id |-> id] \in Got(w)
       /\ r \in DOMAIN rooms =>
            /\ id \notin rooms[r].players
            /\ \A k \in 1..Len(rooms[r].states) : rooms[r].states[k].id # id
       /\ pre.rooms[r].players = {id} => r \notin DOMAIN rooms
       /\ last.ws \notin DOMAIN clients
       /\ \A w \in DOMAIN clients :
            readyState[w] = "OPEN"
              => [t |-> "rooms", rooms |-> RoomList(rooms)] \in Got(w)
       /\ \A w \in Sockets : readyState[w] # "OPEN" => outbox[w] = <<>>

\* a connection that had a world entry closed; another member, whose socket
\* is open, stays in the room and is told
C10_Witness ==
  /\ ClosedInRoom
  /\ pre.clients[last.ws].roomId \in DOMAIN rooms
  /\ \E k \in 1..Len(pre.rooms[pre.clients[last.ws].roomId].states) :
       pre.rooms[pre.clients[last.ws].roomId].states[k].id
         = pre.clients[last.ws].playerId
  /\ \E w \in DOMAIN clients :
       /\ clients[w].roomId = pre.clients[last.ws].roomId
       /\ [t |-> "peer_left", id |-> pre.clients[last.ws].playerId] \in Got(w)

\* C7: a signaling message is delivered to a connection only if that
\* connection's player id equals `to` and it is, when the message is handled,
\* a member of the same room as the sender; what it receives is the relay
\* {t, from, payload}; in every other case nothing is delivered to anybody,
\* and no error is ever sent.
C7_RelayOnlyToRoomPeer ==
  Signaling =>
    \A w \in Sockets :
      outbox[w] # <<>> =>
        /\ w \in DOMAIN clients
        /\ clients[w].playerId = last.msg.to
        /\ clients[last.ws].roomId \in DOMAIN rooms
        /\ clients[w].roomId = clients[last.ws].roomId
        /\ {clients[w].playerId, clients[last.ws].playerId}
             \subseteq rooms[clients[last.ws].roomId].players
        /\ outbox[w] = << [t |-> last.t, from |-> clients[last.ws].playerId,
                           payload |-> last.msg.payload] >>

\* a relay reached another member of the sender's room, while a third
\* connection, outside that room, got nothing
C7_Witness ==
  /\ Signaling
  /\ \E w \in DOMAIN clients : w # last.ws /\ outbox[w] # <<>>
  /\ \E v \in DOMAIN clients : clients[v].roomId # clients[last.ws].roomId

\* C8: no message discloses a lock secret: the room summaries of rooms
\* listings, of joined and of created carry neither code nor password, a
\* created acknowledgment (the only message with a code) goes to the
\* connection whose create_room is being handled and carries the code of the
\* room just created, and no message carries a password; and in two runs
\* that differ only in the rooms' secrets, with the same join outcomes, every
\* connection receives the same messages, the code inside created excepted.
C8_SecretsStayPrivate ==
  /\ \A w \in Sockets : \A m \in Got(w) :
       /\ m.t = "rooms" => \A k \in 1..Len(m.rooms) : DOMAIN m.rooms[k] = SummaryFields
       /\ m.t = "joined" => DOMAIN m.room = SummaryFields
       /\ m.t = "created" =>
            /\ last.t = "create_room" /\ w = last.ws
            /\ DOMAIN m.room = SummaryFields
            /\ NewRooms = {m.room.id}
            /\ m.code = rooms[m.room.id].code
       /\ "password" \notin DOMAIN m
       /\ "code" \in DOMAIN m => m.t = "created"
  /\ \A w \in Sockets :
       /\ Len(outbox[w]) = Len(twin.out[w])
       /\ \A i \in 1..Len(outbox[w]) : CodeMasked(outbox[w][i]) = CodeMasked(twin.out[w][i])

\* a connection has just joined a room whose code differs between the two
\* runs, beside a room whose password differs, and another connection got the
\* listing that shows both
C8_Witness ==
  /\ last.t = "join_room"
  /\ clients[last.ws].roomId = last.msg.roomId
  /\ \E i, j \in DOMAIN rooms :
       /\ clients[last.ws].roomId = i
       /\ rooms[i].code \in Codes /\ twin.rooms[i].code \in Codes \ {rooms[i].code}
       /\ Len(rooms[j].password) >= 3 /\ twin.rooms[j].password # rooms[j].password
  /\ \E w \in DOMAIN clients : w # last.ws /\
       \E m \in Got(w) : m.t = "rooms" /\ Len(m.rooms) = 2

\* C9: A has just created a private room with lock = code and capacity 2 and
\* the very next event is B, in Lobby, joining it with the right code: then B
\* receives joined followed by a roster that contains A, A receives
\* peer_joined with B's player id, and B is in the room.
C9_CreateThenJoin ==
  [][ \A A, B \in DOMAIN clients :
        ( /\ A # B
          /\ last.t = "create_room" /\ last.ws = A /\ NewRooms # {}
          /\ readyState[A] = "OPEN" /\ readyState[B] = "OPEN"
          /\ clients[B].roomId = Null
          /\ last'.t = "join_room" /\ last'.ws = B
          /\ \A r \in NewRooms :
               /\ rooms[r].visibility = "private" /\ rooms[r].lock = "code"
               /\ rooms[r].maxPlayers = Num(2)
               /\ last'.msg.roomId = r /\ last'.msg.code = rooms[r].code )
        => ( /\ Len(outbox'[B]) >= 2
             /\ outbox'[B][1].t = "joined"
             /\ outbox'[B][2].t = "roster"
             /\ \E k \in 1..Len(outbox'[B][2].roster) :
                  outbox'[B][2].roster[k].id = clients[A].playerId
             /\ \E i \in 1..Len(outbox'[A]) :
                  outbox'[A][i].t = "peer_joined" /\ outbox'[A][i].id = clients[B].playerId
             /\ clients'[B].roomId \in NewRooms )
    ]_vars

\* C11 (as stated): every rejected create_room or join_room leaves the
\* registry and the directory unchanged, delivers exactly one error message to
\* the requester and delivers nothing to any other connection.
C11_Original ==
  (RejectedCreate \/ RejectedJoin) =>
    /\ clients = pre.clients
    /\ rooms = pre.rooms
    /\ Len(outbox[last.ws]) = 1 /\ outbox[last.ws][1].t = "error"
    /\ \A w \in Sockets \ {last.ws} : outbox[w] = <<>>

\* C11 (amended): every rejected create_room or join_room leaves the registry
\* and the directory unchanged and delivers nothing to any other connection;
\* the requester gets exactly one error message if its socket is open and
\* nothing if its socket is no longer open.
C11_RejectionChangesNothing ==
  (RejectedCreate \/ RejectedJoin) =>
    /\ clients = pre.clients
    /\ rooms = pre.rooms
    /\ IF readyState[last.ws] = "OPEN"
       THEN Len(outbox[last.ws]) = 1 /\ outbox[last.ws][1].t = "error"
       ELSE outbox[last.ws] = <<>>
    /\ \A w \in Sockets \ {last.ws} : outbox[w] = <<>>

\* a Lobby connection offered a wrong code to a room locked by code, was told
\* so and is still in Lobby
C11_Witness ==
  /\ RejectedJoin
  /\ pre.clients[last.ws].roomId = Null
  /\ last.msg.roomId \in DOMAIN pre.rooms
  /\ pre.rooms[last.msg.roomId].lock = "code"
  /\ last.msg.code # pre.rooms[last.msg.roomId].code
  /\ outbox[last.ws] = <<Err("Codigo incorrecto.")>>
  /\ clients[last.ws].roomId = Null

\* C12: on a successful join_room, peer_joined with the joiner's id is
\* delivered to every other current member of the room and not to the joining
\* connection; the joining connection receives joined and then roster.
C12_PeerJoinedToOthersOnly ==
  JoinSucceeded =>
    LET id == clients[last.ws].playerId
        r == clients[last.ws].roomId
    IN /\ \A w \in DOMAIN clients \ {last.ws} :
            clients[w].playerId \in rooms[r].players =>
              \E m \in Got(w) : m.t = "peer_joined" /\ m.id = id
       /\ \A m \in Got(last.ws) : m.t # "peer_joined"
       /\ Len(outbox[last.ws]) >= 2
       /\ outbox[last.ws][1].t = "joined"
       /\ outbox[last.ws][2].t = "roster"

\* C13 (as stated): a chat message from a connection in Lobby, or with a
\* whitespace-only or empty text, delivers nothing to anybody; any other chat
\* message delivers one chat event to exactly the current members of the
\* sender's room, the sender included, whose text is the original cut to 220
\* characters.
C13_Original ==
  last.t = "chat" =>
    IF clients[last.ws].roomId = Null \/ WhitespaceOnly(last.msg.text)
    THEN \A w \in Sockets : outbox[w] = <<>>
    ELSE /\ Len(ChatCut) <= 220
         /\ \A w \in Sockets :
              outbox[w] = IF w \in MembersOf(clients[last.ws].roomId)
                          THEN <<ChatEvent(ChatCut)>> ELSE <<>>

\* C13 (amended): a chat message from a connection in Lobby, or whose first
\* 220 characters are all whitespace (an empty text included), delivers
\* nothing to anybody; any other chat message delivers one chat event to
\* exactly the current members of the sender's room whose socket is open, the
\* sender included, and its text is the original, untrimmed, cut to 220
\* characters. Neither the registry nor the directory changes.
C13_ChatToOpenMembers ==
  last.t = "chat" =>
    /\ clients = pre.clients /\ rooms = pre.rooms
    /\ IF clients[last.ws].roomId = Null \/ WhitespaceOnly(ChatCut)
       THEN \A w \in Sockets : outbox[w] = <<>>
       ELSE /\ Len(ChatCut) <= 220
            /\ \A w \in Sockets :
                 outbox[w] = IF /\ w \in MembersOf(clients[last.ws].roomId)
                                /\ readyState[w] = "OPEN"
                             THEN <<ChatEvent(ChatCut)>> ELSE <<>>

\* a text of 221 characters reached the sender and another member of its room
\* with 220 of them, and a connection outside the room got nothing
C13_Witness ==
  /\ last.t = "chat"
  /\ Len(last.msg.text) = 221
  /\ \E w \in DOMAIN clients \ {last.ws} :
       /\ clients[w].roomId = clients[last.ws].roomId
       /\ Len(outbox[w]) = 1 /\ Len(outbox[w][1].text) = 220
       /\ outbox[last.ws] = outbox[w]
  /\ \E v \in DOMAIN clients : clients[v].roomId = Null /\ outbox[v] = <<>>

\* C14 (as stated): a message of an unrecognized kind leaves the registry and
\* the directory unchanged, delivers exactly one error message to its sender
\* and delivers nothing to any other connection.
C14_Original ==
  last.t = "unknown" =>
    /\ clients = pre.clients
    /\ rooms = pre.rooms
    /\ Len(outbox[last.ws]) = 1 /\ outbox[last.ws][1].t = "error"
    /\ \A w \in Sockets \ {last.ws} : outbox[w] = <<>>

\* C14 (amended): a message of an unrecognized kind leaves the registry and
\* the directory unchanged and delivers nothing to any other connection; its
\* sender gets exactly one error message, "Tipo desconocido.", if its socket
\* is open and nothing if its socket is no longer open.
C14_UnknownKindOnlyErrors ==
  last.t = "unknown" =>
    /\ clients = pre.clients
    /\ rooms = pre.rooms
    /\ last.ws \in DOMAIN clients
    /\ outbox[last.ws] = IF readyState[last.ws] = "OPEN"
                         THEN <<Err("Tipo desconocido.")>> ELSE <<>>
    /\ \A w \in Sockets \ {last.ws} : outbox[w] = <<>>

\* a member of a room with another member in it sent an unrecognized kind and
\* was told so
C14_Witness ==
  /\ last.t = "unknown"
  /\ clients[last.ws].roomId # Null
  /\ \E w \in DOMAIN clients \ {last.ws} : clients[w].roomId = clients[last.ws].roomId
  /\ outbox[last.ws] = <<Err("Tipo desconocido.")>>

\* C15: nothing is delivered to a connection before its connection event, and
\* that event delivers to it, in this order, welcome with the player id it is
\* registered under and a rooms listing of the directory as it is then, and
\* delivers nothing to anybody else.
C15_WelcomeThenRooms ==
  /\ \A w \in Sockets :
       readyState[w] = "CONNECTING" => w \notin DOMAIN clients /\ outbox[w] = <<>>
  /\ last.t = "connection" =>
       /\ last.ws \notin DOMAIN pre.clients
       /\ rooms = pre.rooms
       /\ outbox[last.ws] =
            << [t |-> "welcome", playerId |-> clients[last.ws].playerId],
               [t |-> "rooms", rooms |-> RoomList(pre.rooms)] >>
       /\ \A w \in Sockets \ {last.ws} : outbox[w] = <<>>

\* a connection arrived when the directory held a room with a member and got
\* the welcome and then a listing that shows that room
C15_Witness ==
  /\ last.t = "connection"
  /\ \E id \in DOMAIN pre.rooms : pre.rooms[id].players # {}
  /\ Len(outbox[last.ws]) = 2
  /\ outbox[last.ws][1].t = "welcome"
  /\ outbox[last.ws][2].t = "rooms"
  /\ Len(outbox[last.ws][2].rooms) >= 1
  /\ outbox[last.ws][2].rooms[1].players >= 1

\* C16 (as stated): a connection whose leave_room or close has been handled
\* receives no peer_left (its own included), peer_joined, world, chat or
\* relayed signaling of the room it left until it joins that room again; every
\* message cast to a room is delivered to exactly the connections whose room
\* pointer is that room when it is cast.
C16_Original ==
  /\ Reached(CastKinds \cup RelayKinds) \subseteq PointingAt(RoomOfEvent)
  /\ Reached(CastKinds \cup RelayKinds) # {} => RoomOfEvent # Null
  /\ Departed => last.ws \notin Reached(CastKinds \cup RelayKinds)
  /\ Reached(CastKinds) = IF CastMade THEN PointingAt(RoomOfEvent) ELSE {}

\* C16 (amended): the same, except that a message cast to a room is delivered
\* to exactly those connections whose room pointer is that room when it is
\* cast and whose socket is open.
C16_NoStaleCast ==
  /\ Reached(CastKinds \cup RelayKinds) \subseteq PointingAt(RoomOfEvent)
  /\ Reached(CastKinds \cup RelayKinds) # {} => RoomOfEvent # Null
  /\ Departed => last.ws \notin Reached(CastKinds \cup RelayKinds)
  /\ Reached(CastKinds) =
       IF CastMade THEN {w \in PointingAt(RoomOfEvent) : readyState[w] = "OPEN"} ELSE {}

\* a connection left a room that another stays in: the one that stays was
\* told peer_left, the one that left got the new listing and nothing else
C16_Witness ==
  /\ last.t = "leave_room"
  /\ Departed
  /\ Reached({"peer_left"}) # {}
  /\ Reached({"peer_left"}) = PointingAt(RoomOfEvent)
  /\ Len(outbox[last.ws]) = 1
  /\ outbox[last.ws][1].t = "rooms"

\* C17: after every handled event, the last rooms message delivered to each
\* registered connection whose socket is open shows the directory as it is
\* now: the same room ids and, for each room, its member count, capacity and
\* full / open status.
C17_ViewsNeverStale ==
  \A w \in DOMAIN clients :
    readyState[w] = "OPEN" =>
      /\ lastRooms[w].seen
      /\ ShowsDirectory(lastRooms[w].rooms, rooms)

\* a chat, which sends no listing, has been handled while two rooms exist, one
\* of them with two members, and a connection other than the sender holds a
\* listing that shows both
C17_Witness ==
  /\ last.t = "chat"
  /\ \E w \in DOMAIN clients \ {last.ws} :
       /\ readyState[w] = "OPEN"
       /\ lastRooms[w].seen
       /\ Len(lastRooms[w].rooms) = 2
       /\ \E k \in 1..2 : lastRooms[w].rooms[k].players = 2

\* C18: the world state of every room holds entries of current members only
\* and at most one for each; the entry of a member is its last state message
\* since it joined, all four fields taken from that message with zero for a
\* missing or non-numeric one, and a member that has sent none since it
\* joined has no entry; every world broadcast carries these entries and no
\* others.
C18_WorldStateIsFresh ==
  /\ \A id \in DOMAIN rooms :
       LET st == rooms[id].states
       IN /\ \A k \in 1..Len(st) : st[k].id \in rooms[id].players
          /\ \A j, k \in 1..Len(st) : st[j].id = st[k].id => j = k
          /\ \A w \in MembersOf(id) :
               IF lastSent[w].sent
               THEN \E k \in 1..Len(st) : st[k] = EntryOf(w)
               ELSE \A k \in 1..Len(st) : st[k].id # clients[w].playerId
  /\ \A w \in Sockets : \A m \in Got(w) :
       m.t = "world" => m.players = rooms[clients[last.ws].roomId].states

\* a member that had a world entry left a room that stays in the directory,
\* and the room's world state has no entry of it any more
C18_Witness ==
  /\ last.t = "leave_room"
  /\ pre.clients[last.ws].roomId \in DOMAIN rooms
  /\ \E k \in 1..Len(pre.rooms[pre.clients[last.ws].roomId].states) :
       pre.rooms[pre.clients[last.ws].roomId].states[k].id = clients[last.ws].playerId
  /\ rooms[pre.clients[last.ws].roomId].states # <<>>
  /\ \A k \in 1..Len(rooms[pre.clients[last.ws].roomId].states) :
       rooms[pre.clients[last.ws].roomId].states[k].id # clients[last.ws].playerId

\* C19: whatever maxPlayers a create_room carries, the capacity stored for
\* the room and the one its summaries show is an integer in 2..16; the room
\* never holds more members than that, and its summary says full exactly when
\* it holds that many.
C19_CapacityClamped ==
  /\ \A id \in DOMAIN rooms :
       /\ InRange(rooms[id].maxPlayers)
       /\ Cardinality(rooms[id].players) <= rooms[id].maxPlayers.n
  /\ \A w \in Sockets : \A m \in Got(w) :
       /\ m.t = "rooms" =>
            \A k \in 1..Len(m.rooms) :
              /\ InRange(m.rooms[k].maxPlayers)
              /\ m.rooms[k].status = "full" <=> m.rooms[k].players = m.rooms[k].maxPlayers.n
       /\ m.t \in {"created", "joined"} => InRange(m.room.maxPlayers)

\* C20: after every handled event, for every registered connection c and
\* every room r of the directory, the room pointer of c is r exactly when the
\* player id of c is a member of r, and every room pointer that is not null
\* is the id of a room of the directory.
C20_RegistryAgreesWithDirectory ==
  /\ \A w \in DOMAIN clients : \A id \in DOMAIN rooms :
       clients[w].roomId = id <=> clients[w].playerId \in rooms[id].players
  /\ \A w \in DOMAIN clients :
       clients[w].roomId # Null => clients[w].roomId \in DOMAIN rooms

\* a connection left a room that another connection stays in, while a third
\* is a member of the other room
C20_Witness ==
  /\ last.t = "leave_room"
  /\ pre.clients[last.ws].roomId \in DOMAIN rooms
  /\ clients[last.ws].roomId = Null
  /\ \E w, v \in DOMAIN clients :
       /\ clients[w].roomId = pre.clients[last.ws].roomId
       /\ clients[v].roomId \notin {Null, clients[w].roomId}

====
